---- MODULE Spec2Model ----
(***************************************************************************)
(* Model of extraction.py: the bundle data extractor.                      *)
(*                                                                         *)
(*   Spec        main(): fetch, then for each category extract ->          *)
(*               build_json (write program, invoke node) -> json.load ->   *)
(*               projections -> optional formatting.                       *)
(*   SpecProject minimize_json / minimize_names_only on bounded record     *)
(*               sets.                                                     *)
(*   SpecLocate  extract_locations on bounded bundle texts.                *)
(***************************************************************************)
EXTENDS Integers, Sequences, FiniteSets, TLC

VARIABLES
    \* ---- main() ----
    args,         \* parse_args(): [url, format]
    pc,           \* position of main() inside the current category block
    cat,          \* index into Categories of the block being executed
    net,          \* what the network did to the last requests.get
    main_script,  \* fetch_data's local main_script
    bundle,       \* main's local `data` (the bundle text, abstracted)
    files,        \* names of the files present in output_dir
    written,      \* names of the files written by this run
    log,          \* logging.error records of this run
    fragments,    \* main's locals locations/enchantments/abilities/items
    build,        \* per category: what build_json did
    json_data,    \* main's local json_data
    raised,       \* the uncaught exception that ended the run, or "none"
    abortAt,      \* where it was raised
    \* ---- minimize_json / minimize_names_only ----
    stage, data, search_keys, search_skills, once, twice, names,
    \* ---- extract_locations ----
    input, text, located

mainVars == <<args, pc, cat, net, main_script, bundle, files, written, log,
              fragments, build, json_data, raised, abortAt>>
projVars == <<stage, data, search_keys, search_skills, once, twice, names>>
locVars  == <<input, text, located>>
vars     == <<mainVars, projVars, locVars>>

(***************************************************************************)
(* Dictionaries: a Python dict is a function whose DOMAIN is its key set.  *)
(***************************************************************************)
EmptyDict == [k \in {} |-> "none"]

Put(d, k, v) == [x \in (DOMAIN d) \cup {k} |-> IF x = k THEN v ELSE d[x]]

(***************************************************************************)
(* minimize_json, minimize_names_only                                      *)
(***************************************************************************)
skill_names == <<"combat", "fishing", "foraging", "mining", "smithing">>

\* `for min_key in keys: if min_key in src.keys(): out[min_key] = src[min_key]`,
\* from position j of the whitelist on.
RECURSIVE CopyKeys(_, _, _, _)
CopyKeys(src, out, keys, j) ==
    IF j > Len(keys) THEN out
    ELSE CopyKeys(src,
                  IF keys[j] \in DOMAIN src THEN Put(out, keys[j], src[keys[j]])
                  ELSE out,
                  keys, j + 1)

\* A skill pass in which a field already copied is kept (the first writer wins).
RECURSIVE SkillPassFirstWins(_, _, _, _)
SkillPassFirstWins(rec, out, keys, i) ==
    IF i > Len(skill_names) THEN out
    ELSE SkillPassFirstWins(
             rec,
             IF skill_names[i] \in DOMAIN rec
             THEN LET lifted == CopyKeys(rec[skill_names[i]], EmptyDict, keys, 1)
                  IN  [f \in (DOMAIN out) \cup (DOMAIN lifted) |->
                          IF f \in DOMAIN out THEN out[f] ELSE lifted[f]]
             ELSE out,
             keys, i + 1)

\* `for skill_key in skill_names: if skill_key in data[key].keys(): ...`,
\* from position i of skill_names on; each group overwrites what is in out.
RECURSIVE SkillPass(_, _, _, _)
SkillPass(rec, out, keys, i) ==
    IF i > Len(skill_names) THEN out
    ELSE SkillPass(rec,
                   IF skill_names[i] \in DOMAIN rec
                   THEN CopyKeys(rec[skill_names[i]], out, keys, 1)
                   ELSE out,
                   keys, i + 1)

\* minimize_json without the top-level loop of lines 82-84.
minimize_json_no_top(d, keys, skills) ==
    [key \in DOMAIN d |->
        IF ~skills THEN EmptyDict ELSE SkillPass(d[key], EmptyDict, keys, 1)]

minimize_json(d, keys, skills) ==
    [key \in DOMAIN d |->
        LET top == CopyKeys(d[key], EmptyDict, keys, 1)
        IN  IF ~skills THEN top ELSE SkillPass(d[key], top, keys, 1)]

\* The dict comprehension reads v[name_field] of every projected record; a
\* record in which it is missing raises KeyError and nothing is returned.
minimize_names_only(d, skills, name_field) ==
    LET m == minimize_json(d, <<name_field>>, skills)
    IN  IF \E x \in DOMAIN m : name_field \notin DOMAIN m[x]
        THEN [raised |-> "KeyError", value |-> EmptyDict]
        ELSE [raised |-> "none", value |-> [x \in DOMAIN m |-> m[x][name_field]]]

(***************************************************************************)
(* main(): the pipeline                                                    *)
(***************************************************************************)
\* The order of the four blocks of main (lines 165, 177, 189, 201).
Categories == <<"locations", "enchantments", "abilities", "items">>

CategorySet == {Categories[i] : i \in DOMAIN Categories}

JsFile(c)        == <<c, "js">>
JsonFile(c)      == <<c, "json">>
NamesFile(c)     == <<c, "names.json">>
MinFile(c)       == <<c, "min.json">>
FormattedFile(c) == <<c, "formatted.json">>

FilesOf(c) == {JsFile(c), JsonFile(c), NamesFile(c), MinFile(c), FormattedFile(c)}

\* What the bundle text holds for a category: "absent" - the category's first
\* pattern matches nowhere; "valid" - it matches and the fragment evaluates
\* under node; "malformed" - it matches and the fragment does not evaluate.
Shapes == {"absent", "valid", "malformed"}

\* items_stop: whether the second search of extract_items (line 130) matches.
Bundles == [locations : Shapes, enchantments : Shapes, abilities : Shapes,
            items : Shapes, items_stop : BOOLEAN]

NoBundle == [locations |-> "unset", enchantments |-> "unset", abilities |-> "unset",
             items |-> "unset", items_stop |-> FALSE]

\* The text of an empty response.
EmptyBundle == [locations |-> "absent", enchantments |-> "absent",
                abilities |-> "absent", items |-> "absent", items_stop |-> FALSE]

\* A match object (group0 is the matched text) and None.
Match(g0) == [matched |-> TRUE, group0 |-> g0]
None      == [matched |-> FALSE, group0 |-> <<>>]

\* regex.search(pattern_of_c, data) on the abstracted bundle.
search(b, c) == IF b[c] = "absent" THEN None ELSE Match(<<c, b[c]>>)

\* The second search of extract_items (item_re, line 130).
search_items_stop(b) == IF b.items_stop THEN Match(<<"items", b.items>>) ELSE None

\* What a call does: return a value (<<>> stands for None, which `if x:`
\* reads as false) or raise; logged is what it passed to logging.error.
Return(v) == [raised |-> "none", value |-> v, logged |-> {}]
Raise(e)  == [raised |-> e, value |-> <<>>, logged |-> {}]

\* locations.group(0) on None raises AttributeError.
extract_locations(locations) ==
    IF ~locations.matched THEN Raise("AttributeError")
    ELSE Return(<<"let locations=">> \o locations.group0 \o <<"\n">>)

extract_enchantments(enchantments) ==
    IF ~enchantments.matched THEN Raise("AttributeError")
    ELSE Return(<<"let ">> \o enchantments.group0 \o <<"\n">>)

\* ability_search[0] on None raises TypeError.
extract_abilities(ability_search) ==
    IF ~ability_search.matched THEN Raise("TypeError")
    ELSE Return(<<"let abilities=">> \o ability_search.group0 \o <<"\n">>)

\* The number of capture groups of item_search_re: what len(item_search.groups())
\* is for every match object of that pattern.
ItemSearchGroups == 2

\* item_search.groups() on None raises AttributeError before the length test;
\* items.group(0) on None raises it after the second search.
extract_items(item_search, items) ==
    IF ~item_search.matched THEN Raise("AttributeError")
    ELSE IF ItemSearchGroups = 2
         THEN IF ~items.matched THEN Raise("AttributeError")
              ELSE Return(<<"let items = ">> \o items.group0 \o <<"\n">>)
         ELSE [raised |-> "none", value |-> <<>>,
               logged |-> {<<"could not find suitable terms", "items">>}]

extract(c, b) ==
    CASE c = "locations"    -> extract_locations(search(b, c))
      [] c = "enchantments" -> extract_enchantments(search(b, c))
      [] c = "abilities"    -> extract_abilities(search(b, c))
      [] c = "items"        -> extract_items(search(b, c), search_items_stop(b))

\* requests.get raising is not caught anywhere in fetch_data or main.
fetch_data_caught(ok, b) ==
    IF ok THEN [raised |-> "none", text |-> b]
    ELSE [raised |-> "none", text |-> EmptyBundle]

fetch_data(ok, b) ==
    IF ok THEN [raised |-> "none", text |-> b]
    ELSE [raised |-> "ConnectionError", text |-> NoBundle]

\* The arguments main passes to minimize_names_only (lines 170, 182, 194, 220).
NamesSkills(c) == c \in {"locations", "items"}
NamesField(c)  == IF c = "abilities" THEN "abilityName" ELSE "name"

\* The whitelist of line 208-216.
ItemsWhitelist == <<"id", "name", "itemImage", "tags", "enchantmentTier",
                    "augmentationStats", "augmentationCost">>

\* Record sets json.load may return.
OneRecord(r) == [x \in {1} |-> r]
SampleData == { OneRecord([name |-> "A", abilityName |-> "A"]),
                OneRecord([id |-> "A"]) }

NoBuild == [write |-> "pending", calls |-> 0, invoke |-> "pending", ret |-> <<>>]

\* What may lie in output_dir from an earlier run.
StaleFiles == {JsFile(Categories[i]) : i \in DOMAIN Categories}
                \cup {JsonFile(Categories[i]) : i \in DOMAIN Categories}

IdleMain ==
    /\ args = [url |-> FALSE, format |-> FALSE]
    /\ pc = "idle" /\ cat = 0 /\ net = "pending" /\ main_script = "unset"
    /\ bundle = NoBundle /\ files = {} /\ written = {} /\ log = {}
    /\ fragments = [c \in CategorySet |-> "pending"]
    /\ build = [c \in CategorySet |-> NoBuild]
    /\ json_data = EmptyDict /\ raised = "none" /\ abortAt = <<>>

InitMain ==
    /\ args \in [url : BOOLEAN, format : BOOLEAN]
    /\ pc = IF args.url THEN "fetch" ELSE "probe"
    /\ main_script = IF args.url THEN "url" ELSE "unset"
    /\ cat = 0 /\ net = "pending"
    /\ bundle = NoBundle
    /\ files \in {{}, StaleFiles} /\ written = {} /\ log = {}
    /\ fragments = [c \in CategorySet |-> "pending"]
    /\ build = [c \in CategorySet |-> NoBuild]
    /\ json_data = EmptyDict /\ raised = "none" /\ abortAt = <<>>

\* An exception nobody catches ends main.
Abort(e) ==
    /\ pc' = "aborted"
    /\ raised' = e
    /\ abortAt' = <<cat, pc>>

NoAbort == UNCHANGED <<raised, abortAt>>

\* Control leaves the block of the current category.
NextCategory ==
    IF cat < Len(Categories)
    THEN pc' = "extract" /\ cat' = cat + 1
    ELSE pc' = "done" /\ cat' = cat

\* fetch_data, lines 38-48: the landing page is fetched and searched.
FetchProbe ==
    /\ pc = "probe"
    /\ \E ok \in BOOLEAN, detected \in BOOLEAN :
          LET r == fetch_data(ok, NoBundle)
          IN  /\ net' = IF ok THEN "ok" ELSE "failed"
              /\ IF r.raised # "none"
                 THEN /\ Abort(r.raised)
                      /\ UNCHANGED main_script
                 ELSE /\ pc' = "fetch"
                      /\ main_script' = IF ok /\ detected THEN "detected" ELSE "default"
                      /\ NoAbort
    /\ UNCHANGED <<args, cat, bundle, files, written, log, fragments, build, json_data>>
    /\ UNCHANGED <<projVars, locVars>>

\* fetch_data, line 50, and main up to line 165.
FetchBundle ==
    /\ pc = "fetch"
    /\ \E ok \in BOOLEAN, b \in Bundles :
          LET r == fetch_data(ok, b)
          IN  /\ net' = IF ok THEN "ok" ELSE "failed"
              /\ IF r.raised # "none"
                 THEN /\ Abort(r.raised)
                      /\ UNCHANGED <<bundle, cat>>
                 ELSE /\ bundle' = r.text
                      /\ pc' = "extract" /\ cat' = 1
                      /\ NoAbort
    /\ UNCHANGED <<args, main_script, files, written, log, fragments, build, json_data>>
    /\ UNCHANGED <<projVars, locVars>>

\* `x = extract_x(data)` and `if x:`.
Extract ==
    /\ pc = "extract"
    /\ LET c == Categories[cat]
           r == extract(c, bundle)
       IN  /\ log' = log \cup r.logged
           /\ IF r.raised # "none"
              THEN /\ Abort(r.raised)
                   /\ fragments' = [fragments EXCEPT ![c] = "raised"]
                   /\ cat' = cat
              ELSE IF r.value = <<>>
              THEN /\ fragments' = [fragments EXCEPT ![c] = "none"]
                   /\ NextCategory
                   /\ NoAbort
              ELSE /\ fragments' = [fragments EXCEPT ![c] = "found"]
                   /\ pc' = "write" /\ cat' = cat
                   /\ NoAbort
    /\ UNCHANGED <<args, net, main_script, bundle, files, written, build, json_data>>
    /\ UNCHANGED <<projVars, locVars>>

\* build_json runs its second try block whatever the first one did.
AfterWriteOneTry(ok) == IF ok THEN "invoke" ELSE "load"

AfterWrite(ok) == "invoke"

\* build_json, lines 54-68: render the template and write <name>.js.
BuildWrite ==
    /\ pc = "write"
    /\ \E ok \in BOOLEAN :
          LET c == Categories[cat]
          IN  /\ files' = IF ok THEN files \cup {JsFile(c)} ELSE files
              /\ written' = IF ok THEN written \cup {JsFile(c)} ELSE written
              /\ log' = IF ok THEN log ELSE log \cup {<<"unable to compile", c>>}
              /\ build' = [build EXCEPT ![c].write = IF ok THEN "ok" ELSE "raised"]
              /\ pc' = AfterWrite(ok)
    /\ UNCHANGED <<args, cat, net, main_script, bundle, fragments, json_data,
                   raised, abortAt>>
    /\ UNCHANGED <<projVars, locVars>>

\* What `node <name>.js` leaves behind: the program writes <name>.json when it
\* exists and evaluates. A program left by an earlier run may do either.
NodeOutcomes(c) ==
    IF JsFile(c) \notin files THEN {"nothing"}
    ELSE IF JsFile(c) \in written
         THEN IF bundle[c] = "valid" THEN {"json"} ELSE {"nothing"}
         ELSE {"json", "nothing"}

\* build_json, lines 69-75: subprocess.call, whose exit status is not read,
\* then `return json_file`.
BuildInvoke ==
    /\ pc = "invoke"
    /\ LET c == Categories[cat]
       IN  \E o \in {"raised"} \cup NodeOutcomes(c) :
              /\ files' = IF o = "json" THEN files \cup {JsonFile(c)} ELSE files
              /\ written' = IF o = "json" THEN written \cup {JsonFile(c)} ELSE written
              /\ log' = IF o = "raised" THEN log \cup {<<"unable to convert", c>>}
                        ELSE log
              /\ build' = [build EXCEPT ![c].calls = @ + 1,
                                        ![c].invoke = IF o = "raised" THEN "raised" ELSE "ok",
                                        ![c].ret = JsonFile(c)]
              /\ pc' = "load"
    /\ UNCHANGED <<args, cat, net, main_script, bundle, fragments, json_data,
                   raised, abortAt>>
    /\ UNCHANGED <<projVars, locVars>>

\* `json_data = json.load(open(json_file, "r"))`: open raises when the file
\* is not there.
Load ==
    /\ pc = "load"
    /\ LET c == Categories[cat]
       IN  IF JsonFile(c) \notin files
           THEN /\ Abort("FileNotFoundError")
                /\ UNCHANGED json_data
           ELSE /\ \E d \in SampleData : json_data' = d
                /\ pc' = IF c = "items" THEN "min" ELSE "names"
                /\ NoAbort
    /\ UNCHANGED <<args, cat, net, main_script, bundle, files, written, log,
                   fragments, build>>
    /\ UNCHANGED <<projVars, locVars>>

\* Lines 206-219, items only: items.min.json.
MinDump ==
    /\ pc = "min"
    /\ LET c == Categories[cat]
           min_data == minimize_json(json_data, ItemsWhitelist, FALSE)
       IN  /\ DOMAIN min_data = DOMAIN json_data
           /\ files' = files \cup {MinFile(c)}
           /\ written' = written \cup {MinFile(c)}
    /\ pc' = "names"
    /\ UNCHANGED <<args, cat, net, main_script, bundle, log, fragments, build,
                   json_data, raised, abortAt>>
    /\ UNCHANGED <<projVars, locVars>>

\* `name_data = minimize_names_only(...)`, the dump to <name>.names.json and
\* `if args.format:`.
NamesDump ==
    /\ pc = "names"
    /\ LET c == Categories[cat]
           name_data == minimize_names_only(json_data, NamesSkills(c), NamesField(c))
       IN  IF name_data.raised # "none"
           THEN /\ Abort(name_data.raised)
                /\ UNCHANGED <<cat, files, written>>
           ELSE /\ files' = files \cup {NamesFile(c)}
                /\ written' = written \cup {NamesFile(c)}
                /\ IF args.format THEN pc' = "format" /\ cat' = cat
                   ELSE NextCategory
                /\ NoAbort
    /\ UNCHANGED <<args, net, main_script, bundle, log, fragments, build, json_data>>
    /\ UNCHANGED <<projVars, locVars>>

\* format_json: every failure is caught and logged.
Format ==
    /\ pc = "format"
    /\ \E ok \in BOOLEAN :
          LET c == Categories[cat]
          IN  /\ files' = IF ok THEN files \cup {FormattedFile(c)} ELSE files
              /\ written' = IF ok THEN written \cup {FormattedFile(c)} ELSE written
              /\ log' = IF ok THEN log ELSE log \cup {<<"unable to format", c>>}
    /\ NextCategory
    /\ UNCHANGED <<args, net, main_script, bundle, fragments, build, json_data,
                   raised, abortAt>>
    /\ UNCHANGED <<projVars, locVars>>

Next ==
    \/ FetchProbe
    \/ FetchBundle
    \/ Extract
    \/ BuildWrite
    \/ BuildInvoke
    \/ Load
    \/ MinDump
    \/ NamesDump
    \/ Format

(***************************************************************************)
(* The projector on bounded record sets                                    *)
(***************************************************************************)
MaxRecords == 1

Atoms == {"A", "B"}

\* The skill groups the generated records carry: the first, a middle and the
\* last entry of skill_names.
DataSkills == {"combat", "mining", "smithing"}

GroupRecords == {EmptyDict} \cup {[f \in {"name"} |-> v] : v \in Atoms}

Records ==
    UNION { UNION { { [k \in S \cup (IF n = "absent" THEN {} ELSE {"name"}) |->
                         IF k = "name" THEN n ELSE g[k]]
                      : n \in {"absent"} \cup Atoms }
                    : g \in [S -> GroupRecords] }
            : S \in SUBSET DataSkills }

RecordSets == UNION { [1..n -> Records] : n \in 0..MaxRecords }

Whitelists == { <<>>, <<"name">>, <<"abilityName">>,
                <<"name", "combat">>, <<"mining", "name">> }

NameFields == {"name", "abilityName"}

NoNames == [field |-> "unset", raised |-> "none", value |-> EmptyDict]

IdleProject ==
    /\ stage = "idle" /\ data = EmptyDict /\ search_keys = <<>>
    /\ search_skills = FALSE /\ once = EmptyDict /\ twice = EmptyDict
    /\ names = NoNames

InitProject ==
    /\ stage = "input"
    /\ data \in RecordSets
    /\ search_keys \in Whitelists
    /\ search_skills \in BOOLEAN
    /\ once = EmptyDict /\ twice = EmptyDict /\ names = NoNames

\* once = minimize_json(data, search_keys, search_skills)
Project ==
    /\ stage = "input"
    /\ once' = minimize_json(data, search_keys, search_skills)
    /\ stage' = "projected"
    /\ UNCHANGED <<data, search_keys, search_skills, twice, names>>
    /\ UNCHANGED <<mainVars, locVars>>

\* twice = minimize_json(once, search_keys, search_skills)
Reproject ==
    /\ stage = "projected"
    /\ twice' = minimize_json(once, search_keys, search_skills)
    /\ stage' = "reprojected"
    /\ UNCHANGED <<data, search_keys, search_skills, once, names>>
    /\ UNCHANGED <<mainVars, locVars>>

\* names = minimize_names_only(data, search_skills, name_field)
NamesOnly ==
    /\ stage = "reprojected"
    /\ \E name_field \in NameFields :
          LET r == minimize_names_only(data, search_skills, name_field)
          IN  names' = [field |-> name_field, raised |-> r.raised, value |-> r.value]
    /\ stage' = "done"
    /\ UNCHANGED <<data, search_keys, search_skills, once, twice>>
    /\ UNCHANGED <<mainVars, locVars>>

NextProject ==
    \/ Project
    \/ Reproject
    \/ NamesOnly

(***************************************************************************)
(* extract_locations on bundle texts.  A text is a sequence of tokens: the *)
(* anchor literal of location_re and a further record are one token each,  *)
(* every other token is one character.                                     *)
(***************************************************************************)
MaxPost == 3

\* Group 2 of location_re.
ClayPit == "{10:{name:\"Clay Pit\""

\* The characters of [a-zA-Z0-9_$] that occur in the texts.
IdentChars == {"x", "y"}

\* The length of the longest run of identifier characters starting at i.
RECURSIVE IdentRun(_, _)
IdentRun(s, i) ==
    IF i > Len(s) \/ s[i] \notin IdentChars THEN 0
    ELSE 1 + IdentRun(s, i + 1)

\* The positions at which a match of location_re that starts at i can end:
\*   \(  ([a-zA-Z0-9_$]+)  \=  (\{10\:\{name\:"Clay Pit")  .+  (,\1\))
\* The identifier is followed by `=`, so it is the whole run; `.` matches
\* anything but a line break.
MatchEnds(s, i) ==
    LET n == IdentRun(s, i + 1)
        a == i + n + 2
    IN  IF /\ i <= Len(s) /\ s[i] = "("
           /\ n >= 1
           /\ a <= Len(s) /\ s[a - 1] = "=" /\ s[a] = ClayPit
        THEN { e \in (a + n + 3)..Len(s) :
                  /\ SubSeq(s, e - n - 1, e) = <<",">> \o SubSeq(s, i + 1, i + n) \o <<")">>
                  /\ \A j \in (a + 1)..(e - n - 2) : s[j] # "\n" }
        ELSE {}

MinOf(S) == CHOOSE x \in S : \A y \in S : x <= y
MaxOf(S) == CHOOSE x \in S : \A y \in S : x >= y

\* The search with `.+?` in place of `.+`: the match ends at the first stop.
location_search_lazy(s) ==
    LET starts == {i \in 1..Len(s) : MatchEnds(s, i) # {}}
    IN  IF starts = {} THEN None
        ELSE LET i == MinOf(starts)
             IN  Match(SubSeq(s, i, MinOf(MatchEnds(s, i))))

\* regex.search(location_re, data): the leftmost start, and from it the
\* longest match (`.+` is greedy).
location_search(s) ==
    LET starts == {i \in 1..Len(s) : MatchEnds(s, i) # {}}
    IN  IF starts = {} THEN None
        ELSE LET i == MinOf(starts)
             IN  Match(SubSeq(s, i, MaxOf(MatchEnds(s, i))))

SeqsUpTo(S, n) == UNION { [1..k -> S] : k \in 0..n }

\* The second record of the literal and the closing brace of the first.
MineBody == <<"}", ",", "11:{name:\"Mine\"}">>

Pres   == { <<>>, <<"x">>, <<"(">>, <<"(", "x">> }
Names  == { <<"x">>, <<"x", "y">> }
Bodies == { MineBody, <<>>, <<"\n">>, <<",", "x", ")">> }
Posts  == SeqsUpTo({"x", ",", ")", "\n"}, MaxPost)

\* ...(x={10:{name:"Clay Pit"} <body> },x)...
Literal(in) == in.name \o <<"=", ClayPit>> \o in.body \o <<"}">>
Stop(in)    == <<",">> \o in.name \o <<")">>
BundleText(in) == in.pre \o <<"(">> \o Literal(in) \o Stop(in) \o in.post

NotLocated == [raised |-> "unset", value |-> <<>>, logged |-> {}]

IdleLocate ==
    /\ input = [pre |-> <<>>, name |-> <<>>, body |-> <<>>, post |-> <<>>]
    /\ text = <<>>
    /\ located = NotLocated

InitLocate ==
    /\ input \in [pre : Pres, name : Names, body : Bodies, post : Posts]
    /\ text = BundleText(input)
    /\ located = NotLocated

\* located = extract_locations(text)
Locate ==
    /\ located = NotLocated
    /\ text # <<>>
    /\ located' = extract_locations(location_search(text))
    /\ UNCHANGED <<input, text>>
    /\ UNCHANGED <<mainVars, projVars>>

NextLocate == Locate

(***************************************************************************)
(* Specifications                                                          *)
(***************************************************************************)
Init == InitMain /\ IdleProject /\ IdleLocate

Spec == Init /\ [][Next]_vars

InitP == IdleMain /\ InitProject /\ IdleLocate

SpecProject == InitP /\ [][NextProject]_vars

InitL == IdleMain /\ IdleProject /\ InitLocate

SpecLocate == InitL /\ [][NextLocate]_vars

(***************************************************************************)
(* Properties of main() and build_json, checked under Spec                 *)
(***************************************************************************)
IndexOf(c) == CHOOSE i \in DOMAIN Categories : Categories[i] = c

BuildFailed(c) == build[c].write = "raised" \/ build[c].invoke = "raised"

\* C1: a category whose anchor pattern matches nowhere in the bundle is
\* skipped: its extraction yields no fragment instead of ending the run, and
\* no file of the category is produced.
C1_AnchorMissSkipsCategory ==
    \A c \in CategorySet :
        (bundle[c] = "absent" /\ fragments[c] # "pending") =>
            /\ fragments[c] = "none"
            /\ ~(pc = "aborted" /\ abortAt = <<IndexOf(c), "extract">>)
            /\ written \cap FilesOf(c) = {}

\* C2: when the bundle has no occurrence of the items first-record anchor,
\* extract_items returns a falsy value without raising, the failure is
\* logged, and no items file is produced.
C2_ItemsMissReturnsFalsy ==
    (bundle.items = "absent" /\ fragments["items"] # "pending") =>
        /\ fragments["items"] = "none"
        /\ raised = "none"
        /\ <<"could not find suitable terms", "items">> \in log
        /\ written \cap FilesOf("items") = {}

\* C3: after build_json failed for a category (the program write or the node
\* invocation raised), the failure is logged and the run is not ended in
\* that category, also when the category's JSON file is absent.
C3_BuildFailureRunContinues ==
    \A c \in CategorySet :
        (BuildFailed(c) /\ build[c].ret # <<>> /\ JsonFile(c) \notin files) =>
            /\ \E msg \in {"unable to compile", "unable to convert"} : <<msg, c>> \in log
            /\ ~(pc = "aborted" /\ abortAt[1] = IndexOf(c))

\* The scenario of C4: the first three literals are valid, the items literal
\* is not, nothing fails in build_json, and the records carry their names.
MalformedItemsScenario ==
    /\ bundle.locations = "valid"
    /\ bundle.enchantments = "valid"
    /\ bundle.abilities = "valid"
    /\ bundle.items \in {"absent", "malformed"}
    /\ \A c \in CategorySet : ~BuildFailed(c)
    /\ raised # "KeyError"

\* C4: in that scenario the run ends normally, having written the json and
\* names files of locations, enchantments and abilities and no items file.
C4_MalformedItemsEndToEnd ==
    (MalformedItemsScenario /\ pc \in {"done", "aborted"}) =>
        /\ pc = "done"
        /\ \A c \in {"locations", "enchantments", "abilities"} :
              {JsonFile(c), NamesFile(c)} \subseteq written
        /\ written \cap FilesOf("items") = {}

\* C5: when a requests.get of fetch_data fails, the run is ended by that
\* exception before any category is extracted, built or written.
C5_FetchFailureIsFatal ==
    net = "failed" =>
        /\ pc = "aborted"
        /\ raised = "ConnectionError"
        /\ bundle = NoBundle
        /\ \A c \in CategorySet : fragments[c] = "pending" /\ build[c] = NoBuild
        /\ written = {}

\* The bundle request failed after the landing page had been fetched.
C5_Witness ==
    /\ net = "failed"
    /\ main_script = "detected"
    /\ abortAt = <<0, "fetch">>

\* C10: once build_json has gone through its write step, whatever the
\* outcome, it is either about to invoke node (no call made yet) or has
\* invoked it exactly once and returned the category's JSON path; no
\* exception of either step ends the run.
C10_BuildJsonFailurePointsIndependent ==
    /\ \A c \in CategorySet :
          build[c].write # "pending" =>
              \/ /\ pc = "invoke" /\ Categories[cat] = c
                 /\ build[c].calls = 0 /\ build[c].ret = <<>>
              \/ /\ build[c].calls = 1 /\ build[c].invoke # "pending"
                 /\ build[c].ret = JsonFile(c)
    /\ pc = "aborted" => abortAt[2] \notin {"write", "invoke"}

\* Both steps raised and build_json still returned the path.
C10_Witness ==
    \E c \in CategorySet :
        /\ build[c].write = "raised"
        /\ build[c].invoke = "raised"
        /\ build[c].calls = 1
        /\ build[c].ret = JsonFile(c)

(***************************************************************************)
(* Properties of the projector, checked under SpecProject                  *)
(***************************************************************************)
SkillNameSet == {skill_names[i] : i \in DOMAIN skill_names}

\* The record has field f at top level, or in a skill group when skills is set.
HasField(rec, f, skills) ==
    \/ f \in DOMAIN rec
    \/ /\ skills
       /\ \E g \in SkillNameSet : g \in DOMAIN rec /\ f \in DOMAIN rec[g]

\* C6: minimize_names_only returns without error a mapping whose keys are
\* exactly the identifiers of the records that have the identifying field,
\* so its size is the record count minus the number of records lacking it.
C6_NamesOnlyOmitsRecordsLackingField ==
    stage = "done" =>
        LET having  == {x \in DOMAIN data : HasField(data[x], names.field, search_skills)}
            lacking == (DOMAIN data) \ having
        IN  /\ names.raised = "none"
            /\ DOMAIN names.value = having
            /\ Cardinality(DOMAIN names.value)
                  = Cardinality(DOMAIN data) - Cardinality(lacking)

\* C7 as stated: projecting a projection with the same whitelist and flag
\* changes nothing, for every whitelist.
C7_ProjectIdempotent ==
    stage \in {"reprojected", "done"} => twice = once

\* C7 amended: projecting a projection changes nothing when the skill-group
\* flag is false or the whitelist names no skill group.
C7_ProjectIdempotentPlainWhitelist ==
    ( /\ stage \in {"reprojected", "done"}
      /\ \/ ~search_skills
         \/ \A j \in DOMAIN search_keys : search_keys[j] \notin SkillNameSet )
    => twice = once

\* A field lifted out of a skill group survives the second projection.
C7_Witness ==
    /\ stage = "reprojected"
    /\ search_skills
    /\ search_keys = <<"name">>
    /\ \E x \in DOMAIN data :
          /\ "name" \notin DOMAIN data[x]
          /\ "name" \in DOMAIN once[x]
          /\ twice[x] = once[x]

\* The positions in skill_names of the groups present on rec that define f.
Defining(rec, f) ==
    {i \in DOMAIN skill_names :
        skill_names[i] \in DOMAIN rec /\ f \in DOMAIN rec[skill_names[i]]}

\* C9: with the skill-group flag set, the projected value of a whitelisted
\* field is its value in the last group of skill_names that is present on
\* the record and defines it, and the top-level value only when no present
\* group defines it.
C9_LastSkillGroupWins ==
    (stage # "input" /\ search_skills) =>
        \A x \in DOMAIN data : \A j \in DOMAIN search_keys :
            LET f   == search_keys[j]
                rec == data[x]
                def == Defining(rec, f)
            IN  IF def # {}
                THEN /\ f \in DOMAIN once[x]
                     /\ once[x][f] = rec[skill_names[MaxOf(def)]][f]
                ELSE IF f \in DOMAIN rec
                THEN f \in DOMAIN once[x] /\ once[x][f] = rec[f]
                ELSE f \notin DOMAIN once[x]

\* {1: {combat: {name: "A"}, mining: {name: "B"}}} with whitelist ["name"]
\* projects to {1: {name: "B"}}.
C9_Witness ==
    /\ stage = "projected"
    /\ search_skills
    /\ search_keys = <<"name">>
    /\ data = <<[combat |-> [name |-> "A"], mining |-> [name |-> "B"]]>>
    /\ once = <<[name |-> "B"]>>

(***************************************************************************)
(* Properties of extract_locations, checked under SpecLocate               *)
(***************************************************************************)
\* The text of the fragment between `let locations=` and the line break.
Payload(v) == SubSeq(v, 2, Len(v) - 1)

\* The bundle of the scenario: ...(x={10:{name:"Clay Pit"},11:{name:"Mine"}},x)...
ClayPitMineBundle == input.name = <<"x">> /\ input.body = MineBody

\* C8 as stated: the fragment assigns exactly the text from `x=` to the
\* closing brace of the literal, without the trailing `,x)`.
C8_FragmentIsTheLiteral ==
    (located # NotLocated /\ ClayPitMineBundle) =>
        /\ located.raised = "none"
        /\ located.value = <<"let locations=">> \o Literal(input) \o <<"\n">>

\* Whether a stop `,<name>)` ends at position e of the text, on the line of
\* the anchor.
StopEndsAt(e) ==
    LET n == Len(input.name)
        a == Len(input.pre) + n + 3
    IN  /\ e - n - 1 > a + 1
        /\ e <= Len(text)
        /\ SubSeq(text, e - n - 1, e) = Stop(input)
        /\ \A j \in (a + 1)..(e - n - 2) : text[j] # "\n"

\* C8 amended: the fragment is `let locations=`, the whole match and a line
\* break; the match starts at the opening parenthesis before the name and
\* runs through the last `,<name>)` on the line, so it holds the leading `(`
\* and the trailing `,<name>)`; with nothing after the literal's own stop it
\* is `(` literal `,<name>)`.
C8_FragmentIsTheWholeMatch ==
    (located # NotLocated /\ "\n" \notin {input.body[j] : j \in DOMAIN input.body}) =>
        LET p     == Payload(located.value)
            first == Len(input.pre) + 1
            last  == Len(input.pre) + Len(p)
        IN  /\ located.raised = "none"
            /\ located.value = <<"let locations=">> \o p \o <<"\n">>
            /\ p = SubSeq(text, first, last)
            /\ Len(p) >= Len(<<"(">> \o Literal(input) \o Stop(input))
            /\ SubSeq(p, 1, Len(Literal(input)) + 1) = <<"(">> \o Literal(input)
            /\ StopEndsAt(last)
            /\ \A e \in (last + 1)..Len(text) : ~StopEndsAt(e)
            /\ input.post = <<>> => p = <<"(">> \o Literal(input) \o Stop(input)

\* The scenario's bundle, followed on the same line by a second `,x)`.
C8_Witness ==
    /\ ClayPitMineBundle
    /\ input.pre = <<>>
    /\ input.post = <<",", "x", ")">>
    /\ located.raised = "none"
    /\ located.value = <<"let locations=", "(">> \o Literal(input)
                          \o <<",", "x", ")", ",", "x", ")", "\n">>

====
